---- MODULE Spec2Model ----
(***************************************************************************)
(* State-machine model of the policyvault Anchor program                   *)
(* (onchain/policyvault/programs/policyvault/src/lib.rs).                  *)
(*                                                                         *)
(* One vault and its policy are modelled.  Every instruction is one atomic *)
(* action: the handler is computed on a copy of the accounts and its       *)
(* result is committed when the handler returns Ok and discarded when it   *)
(* returns an error or panics (a failed transaction changes no account).   *)
(***************************************************************************)
EXTENDS Integers, Sequences, FiniteSets, TLC

\* ---------------------------------------------------------------- constants

REASON_OK == 1
REASON_BUDGET_EXCEEDED == 2
REASON_COOLDOWN == 3
REASON_INVALID_AMOUNT == 4
REASON_PAUSED == 5
REASON_RECIPIENT_NOT_ALLOWED == 6
REASON_RECIPIENT_CAP_EXCEEDED == 7

SECONDS_PER_DAY == 86400

\* Largest value of the u16 field policy_version.
U16_MAX == 65535

\* ------------------------------------------------------------------- bounds

\* Largest value of the model's unsigned lamport / sequence integers (the
\* program's u64, narrowed so that the model checker can enumerate it).
U64_MAX == 119

\* Spend intents are taken while next_sequence < MaxSeq.
MaxSeq == 2

\* Admin mutations are taken while policy_version < MaxVersion.
MaxVersion == 2

\* Accounts are closed while fewer than MaxCloses have been closed.
MaxCloses == 1

\* The clock runs over the days 0 .. MaxDay.
MaxDay == 1

\* Lamports held by the vault when the model starts.
VaultFunding == 110

\* ------------------------------------------------------------- input domains

None == "None"
DefaultPubkey == "11111111111111111111111111111111"
VaultKey == "vault"
PolicyKey == "policy"
Owner == "owner"
AgentKey == "agent"

\* The owner, and a second key that the policy may or may not name as agent.
Callers == {Owner, AgentKey}
Recipients == {"R1", "R2"}
Amounts == {0, 41, 60}

\* <<daily_budget_lamports, cooldown_seconds, agent>> as an owner submits them.
PolicyParams ==
    { <<100, 60, None>>, <<41, 0, AgentKey>> }

\* <<paused, allowlist_enabled, allowed_recipient, per_recipient_daily_cap>>
Switches ==
    { <<FALSE, FALSE, None, 0>>,
      <<FALSE, TRUE, "R1", 0>>,
      <<FALSE, TRUE, None, 0>>,
      <<FALSE, FALSE, None, 60>>,
      <<TRUE, TRUE, "R1", 60>> }

\* Clock readings: around the epoch and one cooldown later, and the first
\* second of every later day.  The cluster clock never runs backwards.
Offsets == {0, 1, 60, 61}
Times == Offsets \cup {d * SECONDS_PER_DAY : d \in 1..MaxDay}
SeqArgs == 0..MaxSeq

\* The sequence a client derived the audit_event address from: the policy's
\* next_sequence as the client read it, now or one spend intent ago.
Observed(n) == {n, n - 1} \cap SeqArgs

\* ------------------------------------------------------------------- state

VARIABLES
    policy,             \* the Policy account (NoPolicy before initialize_policy)
    audit,              \* AuditEvent accounts that exist, keyed by their seed sequence
    trackers,           \* RecipientSpend accounts, per recipient (NoAccount when absent)
    vault_lamports,     \* lamports of the vault account
    recipient_lamports, \* lamports of every recipient account
    emitted,            \* the sequence field of every SpendRecorded event emitted
    written,            \* history: the sequence of every AuditEvent ever written
    closes,             \* history: number of accounts closed so far
    now,                \* Clock::get()?.unix_timestamp at the latest instruction
    last                \* the last instruction and how its transaction ended

vars == <<policy, audit, trackers, vault_lamports, recipient_lamports,
          emitted, written, closes, now, last>>

\* The accounts (and logs) an instruction works on.
Accounts ==
    [policy |-> policy, audit |-> audit, trackers |-> trackers,
     vault_lamports |-> vault_lamports, recipient_lamports |-> recipient_lamports,
     emitted |-> emitted, written |-> written, closes |-> closes]

NoPolicy == [initialized |-> FALSE]
NoAccount == [exists |-> FALSE]

\* ----------------------------------------------------------------- helpers

\* Rust's integer division truncates toward zero.
TruncDiv(a, b) == IF a >= 0 THEN a \div b ELSE -((-a) \div b)

\* clock.unix_timestamp / SECONDS_PER_DAY
CurrentDay(ts) == TruncDiv(ts, SECONDS_PER_DAY)

\* u64::checked_add(..).is_none()
AddOverflows(a, b) == a + b > U64_MAX

\* a.checked_add(b).unwrap_or(u64::MAX)
CheckedAddOrMax(a, b) == IF AddOverflows(a, b) THEN U64_MAX ELSE a + b

\* u16::saturating_add(1)
SaturatingAdd1(v) == IF v >= U16_MAX THEN U16_MAX ELSE v + 1

Ok(a) == [err |-> "ok", st |-> a]
Fail(e, a) == [err |-> e, st |-> a]

\* ------------------------------------------------------- initialize_policy

\* InitializePolicy accounts: `init` on the policy PDA fails when it exists.
initialize_policy(a, daily_budget_lamports, cooldown_seconds, agent, ts) ==
    IF a.policy.initialized
    THEN Fail("AccountInUse", a)
    ELSE Ok([a EXCEPT !.policy =
            [initialized |-> TRUE,
             vault |-> VaultKey,
             authority |-> Owner,
             agent |-> agent,
             daily_budget_lamports |-> daily_budget_lamports,
             spent_today_lamports |-> 0,
             day_index |-> CurrentDay(ts),
             cooldown_seconds |-> cooldown_seconds,
             last_spend_ts |-> 0,
             next_sequence |-> 0,
             paused |-> FALSE,
             allowlist_enabled |-> FALSE,
             allowed_recipient |-> None,
             per_recipient_daily_cap_lamports |-> 0,
             policy_version |-> 1]])

\* ------------------------------------------- set_policy / set_policy_advanced

set_policy(a, authority_key, daily_budget_lamports, cooldown_seconds, agent) ==
    IF ~a.policy.initialized
    THEN Fail("AccountNotInitialized", a)
    ELSE IF authority_key # a.policy.authority
    THEN Fail("Unauthorized", a)
    ELSE Ok([a EXCEPT !.policy =
            [@ EXCEPT !.daily_budget_lamports = daily_budget_lamports,
                      !.cooldown_seconds = cooldown_seconds,
                      !.agent = agent,
                      !.policy_version = SaturatingAdd1(@)]])

set_policy_advanced(a, authority_key, daily_budget_lamports, cooldown_seconds, agent, paused, allowlist_enabled, allowed_recipient, per_recipient_daily_cap_lamports) ==
    IF ~a.policy.initialized
    THEN Fail("AccountNotInitialized", a)
    ELSE IF authority_key # a.policy.authority
    THEN Fail("Unauthorized", a)
    ELSE Ok([a EXCEPT !.policy =
            [@ EXCEPT !.daily_budget_lamports = daily_budget_lamports,
                      !.cooldown_seconds = cooldown_seconds,
                      !.agent = agent,
                      !.paused = paused,
                      !.allowlist_enabled = allowlist_enabled,
                      !.allowed_recipient = allowed_recipient,
                      !.per_recipient_daily_cap_lamports =
                            per_recipient_daily_cap_lamports,
                      !.policy_version = SaturatingAdd1(@)]])

\* ------------------------------------------------------------ spend intents

\* Variant of IsAuthorized: an unset agent admits every caller
\* (map_or(true, ..) in place of map_or(false, ..)).
IsAuthorizedOpenAgent(p, caller_key) ==
    caller_key = p.authority \/ p.agent = None \/ p.agent = caller_key

\* caller must be policy.authority or policy.agent (if set)
IsAuthorized(p, caller_key) ==
    LET is_authority == caller_key = p.authority
        is_agent == IF p.agent = None THEN FALSE ELSE p.agent = caller_key
    IN  is_authority \/ is_agent

\* Variant of RollPolicy: the day index moves on, the counter is kept.
RollPolicyKeepingSpent(p, current_day) ==
    IF current_day # p.day_index THEN [p EXCEPT !.day_index = current_day] ELSE p

\* Reset daily window if the day rolled over.
RollPolicy(p, current_day) ==
    IF current_day # p.day_index
    THEN [p EXCEPT !.spent_today_lamports = 0, !.day_index = current_day]
    ELSE p

\* Variant of RollTracker: on a new day the tracker's day index moves on and
\* its counter is kept.
RollTrackerKeepingSpent(rs, recipient, current_day) ==
    IF rs.policy = DefaultPubkey
    THEN [rs EXCEPT !.policy = PolicyKey, !.recipient = recipient,
                    !.spent_today_lamports = 0, !.day_index = current_day]
    ELSE IF rs.day_index # current_day
    THEN [rs EXCEPT !.day_index = current_day]
    ELSE rs

\* Keep per-recipient tracker on same day window (rs is the account as Anchor
\* hands it over: zeroed when init_if_needed has just created it).
RollTracker(rs, recipient, current_day) ==
    IF rs.policy = DefaultPubkey
    THEN [rs EXCEPT !.policy = PolicyKey, !.recipient = recipient,
                    !.spent_today_lamports = 0, !.day_index = current_day]
    ELSE IF rs.day_index # current_day
    THEN [rs EXCEPT !.spent_today_lamports = 0, !.day_index = current_day]
    ELSE rs

\* policy.last_spend_ts > 0 && now - last_spend_ts < cooldown_seconds
InCooldown(p, ts) ==
    p.last_spend_ts > 0 /\ ts - p.last_spend_ts < p.cooldown_seconds

\* Variant of OverBudget: the amount is left out of the comparison.
OverBudgetWithoutAmount(p, amount) ==
    p.spent_today_lamports > p.daily_budget_lamports

\* spent_today.checked_add(amount).unwrap_or(u64::MAX) > daily_budget
OverBudget(p, amount) ==
    CheckedAddOrMax(p.spent_today_lamports, amount) > p.daily_budget_lamports

\* cap > 0 && rs.spent_today.checked_add(amount).unwrap_or(u64::MAX) > cap
OverRecipientCap(p, rs, amount) ==
    /\ p.per_recipient_daily_cap_lamports > 0
    /\ CheckedAddOrMax(rs.spent_today_lamports, amount)
            > p.per_recipient_daily_cap_lamports

\* (allowed, reason_code) of spend_intent
DecideV1(p, amount, ts) ==
    IF amount = 0 THEN <<FALSE, REASON_INVALID_AMOUNT>>
    ELSE IF OverBudget(p, amount) THEN <<FALSE, REASON_BUDGET_EXCEEDED>>
    ELSE IF InCooldown(p, ts) THEN <<FALSE, REASON_COOLDOWN>>
    ELSE <<TRUE, REASON_OK>>

\* Variant of DecideSwitches: the pause flag is tested before the amount.
DecideSwitchesPauseFirst(p, recipient, amount) ==
    IF p.paused THEN <<FALSE, REASON_PAUSED>>
    ELSE IF amount = 0 THEN <<FALSE, REASON_INVALID_AMOUNT>>
    ELSE IF p.allowlist_enabled
    THEN IF p.allowed_recipient # None /\ p.allowed_recipient = recipient
         THEN <<TRUE, REASON_OK>>
         ELSE <<FALSE, REASON_RECIPIENT_NOT_ALLOWED>>
    ELSE <<TRUE, REASON_OK>>

\* first (allowed, reason_code) of spend_intent_v2: amount, pause, allowlist
DecideSwitches(p, recipient, amount) ==
    IF amount = 0 THEN <<FALSE, REASON_INVALID_AMOUNT>>
    ELSE IF p.paused THEN <<FALSE, REASON_PAUSED>>
    ELSE IF p.allowlist_enabled
    THEN IF p.allowed_recipient # None /\ p.allowed_recipient = recipient
         THEN <<TRUE, REASON_OK>>
         ELSE <<FALSE, REASON_RECIPIENT_NOT_ALLOWED>>
    ELSE <<TRUE, REASON_OK>>

\* final (allowed, reason_code) of spend_intent_v2
DecideV2(p, rs, recipient, amount, ts) ==
    LET first == DecideSwitches(p, recipient, amount)
    IN  IF ~first[1] THEN first
        ELSE IF OverBudget(p, amount) THEN <<FALSE, REASON_BUDGET_EXCEEDED>>
        ELSE IF InCooldown(p, ts) THEN <<FALSE, REASON_COOLDOWN>>
        ELSE IF OverRecipientCap(p, rs, amount)
        THEN <<FALSE, REASON_RECIPIENT_CAP_EXCEEDED>>
        ELSE <<TRUE, REASON_OK>>

\* Variant of AuditRecord: policy_version is not written and keeps the zero
\* of the freshly created account.
AuditRecordVersionUnset(p, ts, recipient, amount, decision) ==
    [policy |-> PolicyKey,
     sequence |-> p.next_sequence,
     ts |-> ts,
     recipient |-> recipient,
     amount |-> amount,
     allowed |-> decision[1],
     reason_code |-> decision[2],
     policy_version |-> 0]

\* The AuditEvent account written for a decision.
AuditRecord(p, ts, recipient, amount, decision) ==
    [policy |-> PolicyKey,
     sequence |-> p.next_sequence,
     ts |-> ts,
     recipient |-> recipient,
     amount |-> amount,
     allowed |-> decision[1],
     reason_code |-> decision[2],
     policy_version |-> p.policy_version]

\* The SpendRecorded event of a completed spend intent.
SpendRecorded(p, ev) ==
    [vault |-> VaultKey,
     policy |-> PolicyKey,
     policy_version |-> p.policy_version,
     sequence |-> ev.sequence,
     recipient |-> ev.recipient,
     amount |-> ev.amount,
     allowed |-> ev.allowed,
     reason_code |-> ev.reason_code,
     ts |-> ev.ts]

\* Variant of SpendAccountsError: the audit_event address is not checked
\* against the seed policy.next_sequence (`init` without `seeds`).
SpendAccountsErrorWithoutSeeds(a, audit_seq) ==
    IF ~a.policy.initialized THEN "AccountNotInitialized"
    ELSE IF audit_seq \in DOMAIN a.audit THEN "AccountInUse"
    ELSE "ok"

\* Account validation of SpendIntent / SpendIntentV2: the policy exists and the
\* audit_event passed in is the still unused PDA of seed policy.next_sequence.
SpendAccountsError(a, audit_seq) ==
    IF ~a.policy.initialized THEN "AccountNotInitialized"
    ELSE IF audit_seq # a.policy.next_sequence THEN "ConstraintSeeds"
    ELSE IF audit_seq \in DOMAIN a.audit THEN "AccountInUse"
    ELSE "ok"

\* Write AuditEvent PDA.
WriteAudit(a, ev) ==
    [a EXCEPT !.audit = [s \in DOMAIN a.audit \cup {ev.sequence} |->
                            IF s = ev.sequence THEN ev ELSE a.audit[s]],
              !.written = Append(@, ev.sequence)]

\* Variant of Transfer: the recipient is credited, the vault is not debited.
TransferCreditOnly(a, recipient, amount) ==
    IF a.vault_lamports < amount
    THEN Fail("InsufficientFunds", a)
    ELSE Ok([a EXCEPT !.recipient_lamports[recipient] = @ + amount])

\* Variant of Transfer: the debit saturates at zero (saturating_sub in place
\* of checked_sub(..).ok_or(InsufficientFunds)).
TransferSaturating(a, recipient, amount) ==
    Ok([a EXCEPT !.vault_lamports = IF @ < amount THEN 0 ELSE @ - amount,
                 !.recipient_lamports[recipient] = @ + amount])

\* Transfer SOL from vault PDA to recipient via direct lamport manipulation.
Transfer(a, recipient, amount) ==
    IF a.vault_lamports < amount
    THEN Fail("InsufficientFunds", a)
    ELSE LET debited == [a EXCEPT !.vault_lamports = @ - amount]
         IN IF AddOverflows(a.recipient_lamports[recipient], amount)
            THEN Fail("Panic", debited)
            ELSE Ok([debited EXCEPT !.recipient_lamports[recipient] = @ + amount])

\* Variant of AdvanceSequence: the counter skips a number.
AdvanceSequenceSkipping(p) == [p EXCEPT !.next_sequence = @ + 2]

\* Advance sequence counter (the unwrap of checked_add is checked by the caller).
AdvanceSequence(p) == [p EXCEPT !.next_sequence = @ + 1]

\* Variant of UpdateCounters: last_spend_ts is stamped on denials too.
UpdateCountersStampingDenials(p, allowed, amount, ts) ==
    IF allowed
    THEN [p EXCEPT !.spent_today_lamports = @ + amount, !.last_spend_ts = ts]
    ELSE [p EXCEPT !.last_spend_ts = ts]

\* Update counters only when allowed.
UpdateCounters(p, allowed, amount, ts) ==
    IF allowed
    THEN [p EXCEPT !.spent_today_lamports = @ + amount, !.last_spend_ts = ts]
    ELSE p

\* Update the recipient tracker only when allowed.
UpdateTracker(rs, allowed, amount) ==
    IF allowed THEN [rs EXCEPT !.spent_today_lamports = @ + amount] ELSE rs

spend_intent(a, caller_key, recipient, amount, audit_seq, ts) ==
    IF SpendAccountsError(a, audit_seq) # "ok"
    THEN Fail(SpendAccountsError(a, audit_seq), a)
    ELSE IF ~IsAuthorized(a.policy, caller_key)
    THEN Fail("Unauthorized", a)
    ELSE
    LET p1 == RollPolicy(a.policy, CurrentDay(ts))
        decision == DecideV1(p1, amount, ts)
        ev == AuditRecord(p1, ts, recipient, amount, decision)
        a1 == WriteAudit([a EXCEPT !.policy = p1], ev)
    IN  IF AddOverflows(p1.next_sequence, 1) THEN Fail("Panic", a1)
        ELSE
        LET p2 == AdvanceSequence(p1)
            a2 == [a1 EXCEPT !.policy = p2]
            emit(x) == [x EXCEPT !.emitted =
                            Append(@, SpendRecorded(x.policy, ev).sequence)]
        IN  IF decision[1] /\ AddOverflows(p2.spent_today_lamports, amount)
            THEN Fail("Panic", a2)
            ELSE
            LET p3 == UpdateCounters(p2, decision[1], amount, ts)
                a3 == [a2 EXCEPT !.policy = p3]
                moved == IF decision[1]
                         THEN Transfer(a3, recipient, amount)
                         ELSE Ok(a3)
            IN  IF moved.err # "ok" THEN moved ELSE Ok(emit(moved.st))

spend_intent_v2(a, caller_key, recipient, amount, audit_seq, ts) ==
    IF SpendAccountsError(a, audit_seq) # "ok"
    THEN Fail(SpendAccountsError(a, audit_seq), a)
    ELSE IF ~IsAuthorized(a.policy, caller_key)
    THEN Fail("Unauthorized", a)
    ELSE
    LET p1 == RollPolicy(a.policy, CurrentDay(ts))
        \* init_if_needed: a missing tracker account is created zeroed
        rs0 == IF a.trackers[recipient].exists
               THEN a.trackers[recipient]
               ELSE [exists |-> TRUE, policy |-> DefaultPubkey,
                     recipient |-> DefaultPubkey,
                     spent_today_lamports |-> 0, day_index |-> 0]
        rs1 == RollTracker(rs0, recipient, CurrentDay(ts))
        decision == DecideV2(p1, rs1, recipient, amount, ts)
        ev == AuditRecord(p1, ts, recipient, amount, decision)
        a1 == WriteAudit([a EXCEPT !.policy = p1,
                                   !.trackers[recipient] = rs1], ev)
    IN  IF AddOverflows(p1.next_sequence, 1) THEN Fail("Panic", a1)
        ELSE
        LET p2 == AdvanceSequence(p1)
            a2 == [a1 EXCEPT !.policy = p2]
            emit(x) == [x EXCEPT !.emitted =
                            Append(@, SpendRecorded(x.policy, ev).sequence)]
        IN  IF decision[1] /\ AddOverflows(p2.spent_today_lamports, amount)
            THEN Fail("Panic", a2)
            ELSE IF decision[1] /\ AddOverflows(rs1.spent_today_lamports, amount)
            THEN Fail("Panic", a2)
            ELSE
            LET p3 == UpdateCounters(p2, decision[1], amount, ts)
                rs2 == UpdateTracker(rs1, decision[1], amount)
                a3 == [a2 EXCEPT !.policy = p3, !.trackers[recipient] = rs2]
                moved == IF decision[1]
                         THEN Transfer(a3, recipient, amount)
                         ELSE Ok(a3)
            IN  IF moved.err # "ok" THEN moved ELSE Ok(emit(moved.st))

\* ------------------------------------------------------------------- closes

\* Variant of close_audit_event: closing gives the sequence number back.
close_audit_event_reclaiming(a, authority_key, seq) ==
    IF ~a.policy.initialized \/ seq \notin DOMAIN a.audit
    THEN Fail("AccountNotInitialized", a)
    ELSE IF authority_key # a.policy.authority
    THEN Fail("Unauthorized", a)
    ELSE Ok([a EXCEPT !.audit = [s \in DOMAIN a.audit \ {seq} |-> a.audit[s]],
                      !.policy.next_sequence = @ - 1,
                      !.closes = @ + 1])

\* Variant of close_audit_event: the policy's agent may close as well.
close_audit_event_by_agent(a, authority_key, seq) ==
    IF ~a.policy.initialized \/ seq \notin DOMAIN a.audit
    THEN Fail("AccountNotInitialized", a)
    ELSE IF ~IsAuthorized(a.policy, authority_key)
    THEN Fail("Unauthorized", a)
    ELSE Ok([a EXCEPT !.audit = [s \in DOMAIN a.audit \ {seq} |-> a.audit[s]],
                      !.closes = @ + 1])

\* CloseAuditEvent: the audit_event account must exist (has_one = policy);
\* `close = authority` removes it once the handler returned Ok.
close_audit_event(a, authority_key, seq) ==
    IF ~a.policy.initialized \/ seq \notin DOMAIN a.audit
    THEN Fail("AccountNotInitialized", a)
    ELSE IF authority_key # a.policy.authority
    THEN Fail("Unauthorized", a)
    ELSE Ok([a EXCEPT !.audit = [s \in DOMAIN a.audit \ {seq} |-> a.audit[s]],
                      !.closes = @ + 1])

\* CloseRecipientSpend: the tracker PDA of (policy, recipient) must exist.
close_recipient_spend(a, authority_key, recipient) ==
    IF ~a.policy.initialized \/ ~a.trackers[recipient].exists
    THEN Fail("AccountNotInitialized", a)
    ELSE IF authority_key # a.policy.authority
    THEN Fail("Unauthorized", a)
    ELSE Ok([a EXCEPT !.trackers[recipient] = NoAccount, !.closes = @ + 1])

\* ------------------------------------------------------------- transactions

\* A transaction is atomic: the accounts a handler changed are stored when it
\* returns Ok, and every change is discarded when it fails.
Commit(op, out, ts) ==
    LET s == IF out.err = "ok" THEN out.st ELSE Accounts
    IN  /\ policy' = s.policy
        /\ audit' = s.audit
        /\ trackers' = s.trackers
        /\ vault_lamports' = s.vault_lamports
        /\ recipient_lamports' = s.recipient_lamports
        /\ emitted' = s.emitted
        /\ written' = s.written
        /\ closes' = s.closes
        /\ last' = [op |-> op, err |-> out.err]
        /\ now' = ts

Init ==
    /\ policy = NoPolicy
    /\ audit = << >>
    /\ trackers = [r \in Recipients |-> NoAccount]
    /\ vault_lamports = VaultFunding
    /\ recipient_lamports = [r \in Recipients |-> 0]
    /\ emitted = << >>
    /\ written = << >>
    /\ closes = 0
    /\ now = 0
    /\ last = [op |-> "initialize_vault", err |-> "ok"]

\* A run is followed up to and including its first failed transaction: a
\* failed transaction changes no account, so what can follow it is what can
\* follow the state it was submitted in.
Ready == last.err = "ok"

\* The clock readings an instruction submitted now can see.
Later == {t \in Times : t >= now}

InitializePolicy ==
    /\ Ready
    /\ ~policy.initialized
    /\ \E pp \in PolicyParams, ts \in Later :
        Commit("initialize_policy",
               initialize_policy(Accounts, pp[1], pp[2], pp[3], ts), ts)

SetPolicy(caller, b, c, ag) ==
    /\ Ready
    /\ policy.initialized => policy.policy_version < MaxVersion
    /\ Commit("set_policy", set_policy(Accounts, caller, b, c, ag), now)

SetPolicyAdvanced(caller, b, c, ag, pz, al, ar, cap) ==
    /\ Ready
    /\ policy.initialized => policy.policy_version < MaxVersion
    /\ Commit("set_policy_advanced",
              set_policy_advanced(Accounts, caller, b, c, ag, pz, al, ar, cap),
              now)

SpendIntent(caller, r, amt, q, ts) ==
    /\ Ready
    /\ policy.initialized => policy.next_sequence < MaxSeq
    /\ Commit("spend_intent", spend_intent(Accounts, caller, r, amt, q, ts), ts)

SpendIntentV2(caller, r, amt, q, ts) ==
    /\ Ready
    /\ policy.initialized => policy.next_sequence < MaxSeq
    /\ Commit("spend_intent_v2",
              spend_intent_v2(Accounts, caller, r, amt, q, ts), ts)

CloseAuditEvent(caller, q) ==
    /\ Ready
    /\ closes < MaxCloses
    /\ q \in DOMAIN audit
    /\ Commit("close_audit_event", close_audit_event(Accounts, caller, q), now)

CloseRecipientSpend(caller, r) ==
    /\ Ready
    /\ closes < MaxCloses
    /\ trackers[r].exists
    /\ Commit("close_recipient_spend",
              close_recipient_spend(Accounts, caller, r), now)

DoSetPolicy ==
    \E caller \in Callers, pp \in PolicyParams :
        SetPolicy(caller, pp[1], pp[2], pp[3])

DoSetPolicyAdvanced ==
    \E caller \in Callers, pp \in PolicyParams, sw \in Switches :
        SetPolicyAdvanced(caller, pp[1], pp[2], pp[3], sw[1], sw[2], sw[3], sw[4])

DoSpendIntent ==
    \E caller \in Callers, r \in Recipients, amt \in Amounts, ts \in Later :
        \E q \in (IF policy.initialized THEN Observed(policy.next_sequence) ELSE {0}) :
            SpendIntent(caller, r, amt, q, ts)

DoSpendIntentV2 ==
    \E caller \in Callers, r \in Recipients, amt \in Amounts, ts \in Later :
        \E q \in (IF policy.initialized THEN Observed(policy.next_sequence) ELSE {0}) :
            SpendIntentV2(caller, r, amt, q, ts)

DoCloseAuditEvent ==
    \E caller \in Callers, q \in SeqArgs : CloseAuditEvent(caller, q)

DoCloseRecipientSpend ==
    \E caller \in Callers, r \in Recipients : CloseRecipientSpend(caller, r)

Next ==
    \/ InitializePolicy
    \/ DoSetPolicy
    \/ DoSetPolicyAdvanced
    \/ DoSpendIntent
    \/ DoSpendIntentV2
    \/ DoCloseAuditEvent
    \/ DoCloseRecipientSpend

Spec == Init /\ [][Next]_vars

\* ------------------------------------------- policy_version at its u16 edge

\* The accounts before initialize_policy.
FreshAccounts ==
    [policy |-> NoPolicy, audit |-> << >>,
     trackers |-> [r \in Recipients |-> NoAccount],
     vault_lamports |-> VaultFunding,
     recipient_lamports |-> [r \in Recipients |-> 0],
     emitted |-> << >>, written |-> << >>, closes |-> 0]

\* A policy created at time 0 whose owner has since called set_policy
\* U16_MAX - 2 times with the parameters it was created with: no spend intent
\* yet, policy_version one below the largest u16.
InitVersionEdge ==
    LET created == initialize_policy(FreshAccounts, 100, 60, None, 0).st
    IN  /\ policy = [created.policy EXCEPT !.policy_version = U16_MAX - 1]
        /\ audit = created.audit
        /\ trackers = created.trackers
        /\ vault_lamports = created.vault_lamports
        /\ recipient_lamports = created.recipient_lamports
        /\ emitted = created.emitted
        /\ written = created.written
        /\ closes = created.closes
        /\ now = 0
        /\ last = [op |-> "set_policy", err |-> "ok"]

\* Admin mutations with no bound on their number (policy_version cannot
\* leave the u16 range), taken while a spend intent can still follow.
SetPolicyAtEdge(caller, b, c, ag) ==
    /\ Ready
    /\ policy.next_sequence < MaxSeq
    /\ Commit("set_policy", set_policy(Accounts, caller, b, c, ag), now)

SetPolicyAdvancedAtEdge(caller, b, c, ag, pz, al, ar, cap) ==
    /\ Ready
    /\ policy.next_sequence < MaxSeq
    /\ Commit("set_policy_advanced",
              set_policy_advanced(Accounts, caller, b, c, ag, pz, al, ar, cap),
              now)

DoSetPolicyAtEdge ==
    \E caller \in Callers, pp \in PolicyParams :
        SetPolicyAtEdge(caller, pp[1], pp[2], pp[3])

DoSetPolicyAdvancedAtEdge ==
    \E caller \in Callers, pp \in PolicyParams, sw \in Switches :
        SetPolicyAdvancedAtEdge(caller, pp[1], pp[2], pp[3],
                                sw[1], sw[2], sw[3], sw[4])

NextVersionEdge ==
    \/ DoSetPolicyAtEdge
    \/ DoSetPolicyAdvancedAtEdge
    \/ DoSpendIntent
    \/ DoSpendIntentV2

SpecVersionEdge == InitVersionEdge /\ [][NextVersionEdge]_vars

\* ------------------------------------------------ amounts at the u64 edge

\* <<daily_budget_lamports, cooldown_seconds, agent>>: the largest budget the
\* field holds, and an ordinary one.
MaxBudgetParams ==
    { <<U64_MAX, 0, None>>, <<100, 0, AgentKey>> }

\* Amounts up to the largest the instruction argument holds; the amount of a
\* spend intent need not be covered by the vault to reach the rules.
LargeAmounts == {0, 60, U64_MAX}

InitializePolicyMaxBudget ==
    /\ Ready
    /\ ~policy.initialized
    /\ \E pp \in MaxBudgetParams, ts \in Later :
        Commit("initialize_policy",
               initialize_policy(Accounts, pp[1], pp[2], pp[3], ts), ts)

DoSpendIntentLarge ==
    \E caller \in Callers, r \in Recipients, amt \in LargeAmounts, ts \in Later :
        \E q \in (IF policy.initialized THEN Observed(policy.next_sequence) ELSE {0}) :
            SpendIntent(caller, r, amt, q, ts)

DoSpendIntentV2Large ==
    \E caller \in Callers, r \in Recipients, amt \in LargeAmounts, ts \in Later :
        \E q \in (IF policy.initialized THEN Observed(policy.next_sequence) ELSE {0}) :
            SpendIntentV2(caller, r, amt, q, ts)

NextMaxBudget ==
    \/ InitializePolicyMaxBudget
    \/ DoSpendIntentLarge
    \/ DoSpendIntentV2Large

SpecMaxBudget == Init /\ [][NextMaxBudget]_vars

\* ------------------------------------------- a clock that is not monotonic

\* Clock readings as a caller-supplied i64 allows them: before the epoch,
\* around it, and a day later, in any order.
ClockReadings == {-SECONDS_PER_DAY - 1, -1, 0, 1, SECONDS_PER_DAY}

InitializePolicyAnyTime ==
    /\ Ready
    /\ ~policy.initialized
    /\ \E pp \in PolicyParams, ts \in ClockReadings :
        Commit("initialize_policy",
               initialize_policy(Accounts, pp[1], pp[2], pp[3], ts), ts)

DoSpendIntentAnyTime ==
    \E caller \in Callers, r \in Recipients, amt \in Amounts, ts \in ClockReadings :
        \E q \in (IF policy.initialized THEN Observed(policy.next_sequence) ELSE {0}) :
            SpendIntent(caller, r, amt, q, ts)

DoSpendIntentV2AnyTime ==
    \E caller \in Callers, r \in Recipients, amt \in Amounts, ts \in ClockReadings :
        \E q \in (IF policy.initialized THEN Observed(policy.next_sequence) ELSE {0}) :
            SpendIntentV2(caller, r, amt, q, ts)

NextAnyTime ==
    \/ InitializePolicyAnyTime
    \/ DoSpendIntentAnyTime
    \/ DoSpendIntentV2AnyTime

SpecAnyTime == Init /\ [][NextAnyTime]_vars

\* ------------------------------------------------ three spend intents

\* Spend intents taken while next_sequence <= MaxSeq: one more than in Spec,
\* for a tracker to be created, left behind by the policy's window and met
\* again.
SpendIntentOneMore(caller, r, amt, q, ts) ==
    /\ Ready
    /\ policy.initialized => policy.next_sequence <= MaxSeq
    /\ Commit("spend_intent", spend_intent(Accounts, caller, r, amt, q, ts), ts)

SpendIntentV2OneMore(caller, r, amt, q, ts) ==
    /\ Ready
    /\ policy.initialized => policy.next_sequence <= MaxSeq
    /\ Commit("spend_intent_v2",
              spend_intent_v2(Accounts, caller, r, amt, q, ts), ts)

DoSpendIntentOneMore ==
    \E caller \in Callers, r \in Recipients, amt \in Amounts, ts \in Later :
        \E q \in (IF policy.initialized THEN Observed(policy.next_sequence) ELSE {0}) :
            SpendIntentOneMore(caller, r, amt, q, ts)

DoSpendIntentV2OneMore ==
    \E caller \in Callers, r \in Recipients, amt \in Amounts, ts \in Later :
        \E q \in (IF policy.initialized THEN Observed(policy.next_sequence) ELSE {0}) :
            SpendIntentV2OneMore(caller, r, amt, q, ts)

NextTrackers ==
    \/ InitializePolicy
    \/ DoSpendIntentOneMore
    \/ DoSpendIntentV2OneMore
    \/ DoCloseRecipientSpend

SpecTrackers == Init /\ [][NextTrackers]_vars

\* ======================================================================
\* Properties
\* ======================================================================

SpendOps == {"spend_intent", "spend_intent_v2"}
AdminOps == {"set_policy", "set_policy_advanced"}

\* The step is a spend intent whose transaction succeeded.
SpendCommitted == last'.op \in SpendOps /\ last'.err = "ok"

\* The AuditEvent written by the spend intent of this step.
NewEvent == audit'[policy.next_sequence]

\* Everything a transaction could have stored.
AccountsUnchanged ==
    UNCHANGED <<policy, audit, trackers, vault_lamports, recipient_lamports,
                emitted, written, closes>>

\* The day of a clock reading, floor(ts / 86400).
EpochDay(ts) == ts \div SECONDS_PER_DAY

\* ------------------------------------------------------------------ C1
\* C1: after N completed spend intents (allowed or denied, through either
\* entry point, interleaved with admin mutations and closes) next_sequence
\* is 0 + N, the audit events written so far carry the sequence numbers
\* 0 .. N-1 in order, each once, and every audit account still open sits at
\* its own number below next_sequence.
C1_SequenceGapless ==
    LET N == Len(emitted)
    IN  /\ ~policy.initialized => N = 0
        /\ policy.initialized => policy.next_sequence = N
        /\ written = [i \in 1..N |-> i - 1]
        /\ \A q \in DOMAIN audit : q \in 0..(N - 1) /\ audit[q].sequence = q

\* Two spend intents, one allowed and one denied, an admin mutation between
\* or around them and one audit event closed.
C1_Witness ==
    /\ policy.initialized
    /\ policy.next_sequence = 2
    /\ policy.policy_version = 2
    /\ closes = 1
    /\ \E q \in DOMAIN audit : ~audit[q].allowed
    /\ vault_lamports < VaultFunding

\* ------------------------------------------------------------------ C2
\* C2: a spend intent (either entry point) submitted with valid accounts by a
\* caller that is neither policy.authority nor the agent currently set fails
\* with Unauthorized and stores nothing: no audit event, no sequence advance,
\* no rollover of the policy or of any tracker, last_spend_ts and all
\* balances unchanged.
C2_UnauthorizedNoEffect ==
    [][\A c \in Callers, r \in Recipients, amt \in Amounts :
          ( /\ last'.op \in SpendOps
            /\ policy.initialized
            /\ c # policy.authority
            /\ c # policy.agent
            /\ \/ SpendIntent(c, r, amt, policy.next_sequence, now')
               \/ SpendIntentV2(c, r, amt, policy.next_sequence, now') )
          => (last'.err = "Unauthorized" /\ AccountsUnchanged)]_vars

\* An unauthorized spend_intent_v2 arrived on a later day than the policy's
\* window, with spend accumulated in that window.
C2_Witness ==
    /\ last = [op |-> "spend_intent_v2", err |-> "Unauthorized"]
    /\ policy.initialized
    /\ policy.spent_today_lamports > 0
    /\ EpochDay(now) # policy.day_index
    /\ policy.next_sequence = Len(written)

\* ------------------------------------------------------------------ C3
\* The rule chain as the design states it, on the counters as they stand
\* after the lazy rollover: the reason of the first failing rule, or OK.
FirstFailingRule(p, spent, tracker_spent, ts, recipient, amount) ==
    IF amount = 0 THEN REASON_INVALID_AMOUNT
    ELSE IF p.paused THEN REASON_PAUSED
    ELSE IF p.allowlist_enabled /\ recipient # p.allowed_recipient
    THEN REASON_RECIPIENT_NOT_ALLOWED
    ELSE IF spent + amount > p.daily_budget_lamports
    THEN REASON_BUDGET_EXCEEDED
    ELSE IF p.last_spend_ts > 0 /\ ts - p.last_spend_ts < p.cooldown_seconds
    THEN REASON_COOLDOWN
    ELSE IF /\ p.per_recipient_daily_cap_lamports > 0
            /\ tracker_spent + amount > p.per_recipient_daily_cap_lamports
    THEN REASON_RECIPIENT_CAP_EXCEEDED
    ELSE REASON_OK

\* spent_today of the policy as a spend intent at ts sees it.
SpentSeen(ts) ==
    IF EpochDay(ts) # policy.day_index THEN 0 ELSE policy.spent_today_lamports

\* spent_today of recipient r's tracker as a spend_intent_v2 at ts sees it.
TrackerSpentSeen(r, ts) ==
    IF trackers[r].exists /\ trackers[r].day_index = EpochDay(ts)
    THEN trackers[r].spent_today_lamports
    ELSE 0

\* C3: the (allowed, reason_code) recorded by a spend_intent_v2 is the outcome
\* of the first failing rule in the order INVALID_AMOUNT, PAUSED,
\* RECIPIENT_NOT_ALLOWED, BUDGET_EXCEEDED, COOLDOWN, RECIPIENT_CAP_EXCEEDED,
\* and is allowed / OK exactly when no rule fails.
C3_RulePrecedence ==
    [][(last'.op = "spend_intent_v2" /\ last'.err = "ok") =>
          LET e == NewEvent
              expected == FirstFailingRule(policy, SpentSeen(e.ts),
                                           TrackerSpentSeen(e.recipient, e.ts),
                                           e.ts, e.recipient, e.amount)
          IN  /\ e.reason_code = expected
              /\ e.allowed = (expected = REASON_OK)]_vars

\* A spend_intent_v2 with amount 0 on a paused policy was recorded as
\* INVALID_AMOUNT.
C3_Witness ==
    /\ last = [op |-> "spend_intent_v2", err |-> "ok"]
    /\ policy.paused
    /\ policy.allowlist_enabled
    /\ (policy.next_sequence - 1) \in DOMAIN audit
    /\ audit[policy.next_sequence - 1].amount = 0
    /\ audit[policy.next_sequence - 1].reason_code = REASON_INVALID_AMOUNT

\* ------------------------------------------------------------------ C4
\* C4: while policy.paused holds, every completed spend intent with
\* amount > 0, through spend_intent as well as spend_intent_v2, is denied
\* PAUSED, no lamports leave the vault and spent_today does not grow.
C4_PauseKillSwitch ==
    [][(SpendCommitted /\ policy.paused /\ NewEvent.amount > 0) =>
          /\ ~NewEvent.allowed
          /\ NewEvent.reason_code = REASON_PAUSED
          /\ vault_lamports' = vault_lamports
          /\ policy'.spent_today_lamports <= policy.spent_today_lamports]_vars

\* ------------------------------------------------------------------ C5
\* C5: with allowlist_enabled and allowed_recipient = R1 on an unpaused
\* policy, every completed spend intent with amount > 0 to a recipient other
\* than R1, through spend_intent as well as spend_intent_v2, is denied
\* RECIPIENT_NOT_ALLOWED and no recipient other than R1 receives lamports.
C5_AllowlistOnly ==
    [][( /\ SpendCommitted
         /\ ~policy.paused
         /\ policy.allowlist_enabled
         /\ policy.allowed_recipient # None
         /\ NewEvent.amount > 0
         /\ NewEvent.recipient # policy.allowed_recipient ) =>
          /\ ~NewEvent.allowed
          /\ NewEvent.reason_code = REASON_RECIPIENT_NOT_ALLOWED
          /\ \A r \in Recipients \ {policy.allowed_recipient} :
                recipient_lamports'[r] = recipient_lamports[r]]_vars

\* ------------------------------------------------------------------ C6
\* C6 as claimed: whenever the policy's day window is current,
\* spent_today <= daily_budget.
C6_SpentWithinBudget ==
    (policy.initialized /\ policy.day_index = EpochDay(now)) =>
        policy.spent_today_lamports <= policy.daily_budget_lamports

WithinBudget(p) == p.spent_today_lamports <= p.daily_budget_lamports

\* C6 as amended: spent_today <= daily_budget holds after initialize_policy,
\* after every allowed spend and after every spend intent that rolled the
\* window over, and every operation preserves it except a set_policy /
\* set_policy_advanced whose new daily_budget is below the spent_today
\* accumulated so far (which no admin mutation changes).
C6_WithinBudgetUnlessLowered ==
    [][policy'.initialized =>
          /\ ~policy.initialized => WithinBudget(policy')
          /\ (SpendCommitted /\ NewEvent.allowed) => WithinBudget(policy')
          /\ (SpendCommitted /\ EpochDay(NewEvent.ts) # policy.day_index)
                => WithinBudget(policy')
          /\ ( /\ policy.initialized
               /\ WithinBudget(policy)
               /\ policy'.daily_budget_lamports >= policy.spent_today_lamports )
                => WithinBudget(policy')
          /\ (policy.initialized /\ last'.op \in AdminOps) =>
                policy'.spent_today_lamports = policy.spent_today_lamports]_vars

\* An admin mutation lowered the budget exactly to the amount already spent
\* in the current window.
C6_Witness ==
    /\ policy.initialized
    /\ last.op \in AdminOps /\ last.err = "ok"
    /\ policy.day_index = EpochDay(now)
    /\ policy.spent_today_lamports = 41
    /\ policy.daily_budget_lamports = 41

\* ------------------------------------------------------------------ C7
\* C7: with cooldown_seconds = c, after a spend allowed at time t (t = 0
\* included) a later spend intent at t' that passes the amount, pause,
\* allowlist and budget rules is denied COOLDOWN when t' - t < c and is not
\* denied COOLDOWN when t' - t >= c.
C7_Cooldown ==
    [][SpendCommitted =>
          LET e == NewEvent
              c == policy.cooldown_seconds
              passes ==
                  /\ e.amount > 0
                  /\ ~policy.paused
                  /\ policy.allowlist_enabled =>
                        e.recipient = policy.allowed_recipient
                  /\ SpentSeen(e.ts) + e.amount <= policy.daily_budget_lamports
              allowedBefore == {q \in DOMAIN audit : audit[q].allowed}
          IN  passes =>
                /\ (\E q \in allowedBefore : e.ts - audit[q].ts < c)
                      => e.reason_code = REASON_COOLDOWN
                /\ (closes = 0 /\ \A q \in allowedBefore : e.ts - audit[q].ts >= c)
                      => e.reason_code # REASON_COOLDOWN]_vars

\* ------------------------------------------------------------------ C8
\* C8: a completed spend intent at a time whose epoch day differs from
\* policy.day_index leaves day_index at that day and spent_today at what this
\* intent alone added (the old counter is dropped before the rules run, so
\* BUDGET_EXCEEDED is decided on the spend of the current day only); when
\* the day is unchanged the counter is kept and only grows by an allowed
\* amount.
C8_LazyRollover ==
    [][SpendCommitted =>
          LET e == NewEvent
              day == EpochDay(e.ts)
              added == IF e.allowed THEN e.amount ELSE 0
          IN  /\ policy'.day_index = day
              /\ day # policy.day_index =>
                    /\ policy'.spent_today_lamports = added
                    /\ (e.reason_code = REASON_BUDGET_EXCEEDED)
                          => e.amount > policy.daily_budget_lamports
              /\ day = policy.day_index =>
                    /\ policy'.spent_today_lamports =
                          policy.spent_today_lamports + added
                    /\ (e.reason_code = REASON_BUDGET_EXCEEDED) =>
                          policy.spent_today_lamports + e.amount
                              > policy.daily_budget_lamports]_vars

\* Two spends allowed on different days under one policy version whose sum
\* is above the daily budget.
C8_Witness ==
    /\ policy.initialized
    /\ policy.policy_version = 1
    /\ DOMAIN audit = {0, 1}
    /\ audit[0].allowed /\ audit[1].allowed
    /\ EpochDay(audit[0].ts) # EpochDay(audit[1].ts)
    /\ audit[0].amount + audit[1].amount > policy.daily_budget_lamports
    /\ policy.spent_today_lamports = audit[1].amount
    /\ policy.day_index = EpochDay(audit[1].ts)

\* ------------------------------------------------------------------ C9
DenialReasons ==
    {REASON_INVALID_AMOUNT, REASON_PAUSED, REASON_RECIPIENT_NOT_ALLOWED,
     REASON_BUDGET_EXCEEDED, REASON_COOLDOWN, REASON_RECIPIENT_CAP_EXCEEDED}

\* C9: a denied spend intent completes, writes exactly one audit event with
\* allowed = false and a denial reason, advances next_sequence by one, and
\* otherwise changes only what the lazy rollover changes: last_spend_ts, the
\* policy parameters, every balance, every other audit event and every other
\* tracker are unchanged, and spent_today of the policy and of the
\* recipient's tracker are their pre-call values (0 after a rollover).
C9_DenialFrame ==
    [][(SpendCommitted /\ ~NewEvent.allowed) =>
          LET e == NewEvent
              n == policy.next_sequence
          IN  /\ e.reason_code \in DenialReasons
              /\ e.sequence = n
              /\ DOMAIN audit' = DOMAIN audit \cup {n}
              /\ \A q \in DOMAIN audit : audit'[q] = audit[q]
              /\ written' = Append(written, n)
              /\ emitted' = Append(emitted, n)
              /\ policy' = [policy EXCEPT
                                !.next_sequence = n + 1,
                                !.day_index = EpochDay(e.ts),
                                !.spent_today_lamports = SpentSeen(e.ts)]
              /\ vault_lamports' = vault_lamports
              /\ recipient_lamports' = recipient_lamports
              /\ \A r \in Recipients :
                    IF last'.op = "spend_intent_v2" /\ r = e.recipient
                    THEN /\ trackers'[r].exists
                         /\ trackers'[r].day_index = EpochDay(e.ts)
                         /\ trackers'[r].spent_today_lamports
                                = TrackerSpentSeen(r, e.ts)
                    ELSE trackers'[r] = trackers[r]]_vars

\* dailyBudget = 100: after an allowed 60, a spend of 41 was denied
\* BUDGET_EXCEEDED and spent_today is still 60.
C9_Witness ==
    /\ policy.initialized
    /\ policy.daily_budget_lamports = 100
    /\ DOMAIN audit = {0, 1}
    /\ audit[0].allowed /\ audit[0].amount = 60
    /\ ~audit[1].allowed /\ audit[1].amount = 41
    /\ audit[1].reason_code = REASON_BUDGET_EXCEEDED
    /\ policy.spent_today_lamports = 60
    /\ policy.last_spend_ts = audit[0].ts
    /\ vault_lamports = VaultFunding - 60

\* ----------------------------------------------------------------- C10
\* spend_intent's rules (amount, budget, cooldown) pass for amt at ts.
V1Passes(amt, ts) ==
    /\ amt > 0
    /\ SpentSeen(ts) + amt <= policy.daily_budget_lamports
    /\ ~(policy.last_spend_ts > 0 /\ ts - policy.last_spend_ts < policy.cooldown_seconds)

\* spend_intent_v2's rules pass for amt to r at ts.
V2Passes(r, amt, ts) ==
    FirstFailingRule(policy, SpentSeen(ts), TrackerSpentSeen(r, ts), ts, r, amt)
        = REASON_OK

\* C10: an authorized spend intent that passes every rule while the vault
\* holds less than the amount fails with InsufficientFunds, and a spend
\* intent that fails so stores nothing: no audit event, no sequence advance,
\* no counter, day index, last_spend_ts or balance change, no event emitted.
C10_TransferFailureRollsBack ==
    [][/\ (last'.op \in SpendOps /\ last'.err = "InsufficientFunds")
            => AccountsUnchanged
       /\ \A c \in Callers, r \in Recipients, amt \in Amounts :
            ( /\ last'.op \in SpendOps
              /\ policy.initialized
              /\ amt > vault_lamports
              /\ c = policy.authority \/ c = policy.agent
              /\ \/ /\ V1Passes(amt, now')
                    /\ SpendIntent(c, r, amt, policy.next_sequence, now')
                 \/ /\ V2Passes(r, amt, now')
                    /\ SpendIntentV2(c, r, amt, policy.next_sequence, now') )
            => (last'.err = "InsufficientFunds" /\ AccountsUnchanged)]_vars

\* A spend_intent_v2 failed on the transfer on a later day than the policy's
\* window: the window is not rolled and the sequence has not moved.
C10_Witness ==
    /\ last = [op |-> "spend_intent_v2", err |-> "InsufficientFunds"]
    /\ policy.spent_today_lamports = 60
    /\ vault_lamports = VaultFunding - 60
    /\ EpochDay(now) # policy.day_index
    /\ policy.next_sequence = 1
    /\ Len(emitted) = 1 /\ DOMAIN audit = {0}

\* ----------------------------------------------------------------- C11
RECURSIVE SumOver(_, _)
\* The sum of f[x] over the finite set S.
SumOver(f, S) ==
    IF S = {} THEN 0
    ELSE LET x == CHOOSE y \in S : TRUE
         IN  f[x] + SumOver(f, S \ {x})

\* The amounts of the allowed events among the audit events ev.
AllowedTotal(ev) ==
    SumOver([q \in DOMAIN ev |-> IF ev[q].allowed THEN ev[q].amount ELSE 0],
            DOMAIN ev)

\* C11: a step debits the vault exactly when it is a completed spend intent
\* whose audit event is allowed, and then by exactly the event's amount,
\* credited to the event's recipient in the same operation that adds the
\* amount to policy.spent_today (and, in spend_intent_v2, to the recipient's
\* tracker) and sets last_spend_ts = now; so the total debited from the vault
\* is the total credited to the recipients, is the sum of the allowed amounts
\* of the audit events as long as none is purged, and the vault balance is
\* never negative.
C11_AllowedIffTransferred ==
    [][/\ vault_lamports' >= 0
       /\ IF SpendCommitted /\ NewEvent.allowed
          THEN LET e == NewEvent
               IN  /\ e.ts = now'
                   /\ vault_lamports' = vault_lamports - e.amount
                   /\ recipient_lamports' =
                        [recipient_lamports EXCEPT ![e.recipient] = @ + e.amount]
                   /\ policy'.spent_today_lamports = SpentSeen(e.ts) + e.amount
                   /\ policy'.last_spend_ts = e.ts
                   /\ last'.op = "spend_intent_v2" =>
                        trackers'[e.recipient].spent_today_lamports
                            = TrackerSpentSeen(e.recipient, e.ts) + e.amount
          ELSE /\ vault_lamports' = vault_lamports
               /\ recipient_lamports' = recipient_lamports
       /\ VaultFunding - vault_lamports'
            = SumOver(recipient_lamports', Recipients)
       /\ (DOMAIN audit' = 0..(Len(written') - 1)) =>
            VaultFunding - vault_lamports' = AllowedTotal(audit')]_vars

\* Two spends were allowed, to different recipients; the audit event of the
\* first has been purged since, and the vault is short of both amounts.
C11_Witness ==
    /\ written = <<0, 1>>
    /\ DOMAIN audit = {1}
    /\ audit[1].allowed /\ audit[1].amount = 41 /\ audit[1].recipient = "R2"
    /\ recipient_lamports = [r \in Recipients |-> IF r = "R1" THEN 60 ELSE 41]
    /\ vault_lamports = VaultFunding - 101

\* ----------------------------------------------------------------- C12
\* C12: the policy_version recorded in an audit event is policy.policy_version
\* as it stood when the spend intent was evaluated, and no step changes a
\* field of an audit event that exists: it stays as written until a
\* successful close_audit_event removes it.
C12_AuditImmutable ==
    [][/\ SpendCommitted =>
            NewEvent.policy_version = policy.policy_version
       /\ \A q \in DOMAIN audit :
            IF q \in DOMAIN audit'
            THEN audit'[q] = audit[q]
            ELSE /\ last' = [op |-> "close_audit_event", err |-> "ok"]
                 /\ DOMAIN audit' = DOMAIN audit \ {q}]_vars

\* An event recorded under version 1 still says 1 after the policy moved to
\* version 2 and a further event was recorded under version 2.
C12_Witness ==
    /\ policy.initialized
    /\ policy.policy_version = 2
    /\ DOMAIN audit = {0, 1}
    /\ audit[0].policy_version = 1
    /\ audit[1].policy_version = 2

\* ----------------------------------------------------------------- C13
\* C13: set_policy, set_policy_advanced, close_audit_event and
\* close_recipient_spend submitted on existing accounts by a caller other
\* than policy.authority, the policy's agent included, fail with Unauthorized
\* and store nothing.
C13_AdminAuthorityOnly ==
    [][\A c \in Callers :
          ( /\ policy.initialized
            /\ c # policy.authority
            /\ \/ \E pp \in PolicyParams : SetPolicy(c, pp[1], pp[2], pp[3])
               \/ \E pp \in PolicyParams, sw \in Switches :
                    SetPolicyAdvanced(c, pp[1], pp[2], pp[3],
                                      sw[1], sw[2], sw[3], sw[4])
               \/ \E q \in SeqArgs : CloseAuditEvent(c, q)
               \/ \E r \in Recipients : CloseRecipientSpend(c, r) )
          => (last'.err = "Unauthorized" /\ AccountsUnchanged)]_vars

\* The policy's own agent was refused the purge of an audit event.
C13_Witness ==
    /\ last = [op |-> "close_audit_event", err |-> "Unauthorized"]
    /\ policy.initialized
    /\ policy.agent = AgentKey
    /\ policy.policy_version = 1
    /\ DOMAIN audit = {0, 1}
    /\ closes = 0

\* ----------------------------------------------------------------- C14
\* The step is a set_policy or set_policy_advanced whose transaction succeeded.
AdminCommitted == last'.op \in AdminOps /\ last'.err = "ok"

\* C14: policy_version is 1 after initialize_policy, grows by exactly 1 in
\* every successful set_policy or set_policy_advanced, however many there
\* have been, is changed by no other operation and never decreases.
C14_VersionBumped ==
    [][/\ (~policy.initialized /\ policy'.initialized)
            => policy'.policy_version = 1
       /\ policy.initialized =>
            /\ policy'.initialized
            /\ policy'.policy_version >= policy.policy_version
            /\ AdminCommitted
                  => policy'.policy_version = policy.policy_version + 1
            /\ ~AdminCommitted
                  => policy'.policy_version = policy.policy_version]_vars

\* ----------------------------------------------------------------- C15
\* C15: a successful set_policy changes daily_budget, cooldown_seconds and
\* agent, bumps policy_version and changes nothing else of the policy
\* (spent_today, day_index, last_spend_ts, next_sequence, vault, authority,
\* paused, allowlist_enabled, allowed_recipient, per_recipient_daily_cap); a
\* successful set_policy_advanced may also change the four switches and
\* nothing else; neither touches another account.  So after a budget was
\* lowered below spent_today, a spend intent of the same day that passes the
\* amount, pause and allowlist rules is denied BUDGET_EXCEEDED.
C15_SetPolicyFrame ==
    [][/\ (last'.op = "set_policy" /\ last'.err = "ok") =>
            /\ policy'.policy_version > policy.policy_version
            /\ policy' = [policy EXCEPT
                    !.daily_budget_lamports = policy'.daily_budget_lamports,
                    !.cooldown_seconds = policy'.cooldown_seconds,
                    !.agent = policy'.agent,
                    !.policy_version = policy'.policy_version]
       /\ (last'.op = "set_policy_advanced" /\ last'.err = "ok") =>
            /\ policy'.policy_version > policy.policy_version
            /\ policy' = [policy EXCEPT
                    !.daily_budget_lamports = policy'.daily_budget_lamports,
                    !.cooldown_seconds = policy'.cooldown_seconds,
                    !.agent = policy'.agent,
                    !.paused = policy'.paused,
                    !.allowlist_enabled = policy'.allowlist_enabled,
                    !.allowed_recipient = policy'.allowed_recipient,
                    !.per_recipient_daily_cap_lamports =
                        policy'.per_recipient_daily_cap_lamports,
                    !.policy_version = policy'.policy_version]
       /\ AdminCommitted =>
            UNCHANGED <<audit, trackers, vault_lamports, recipient_lamports,
                        emitted, written, closes>>
       /\ ( /\ SpendCommitted
            /\ EpochDay(NewEvent.ts) = policy.day_index
            /\ policy.spent_today_lamports > policy.daily_budget_lamports
            /\ NewEvent.amount > 0
            /\ ~policy.paused
            /\ policy.allowlist_enabled =>
                    NewEvent.recipient = policy.allowed_recipient )
            => (~NewEvent.allowed /\
                NewEvent.reason_code = REASON_BUDGET_EXCEEDED)]_vars

\* C15 without its clause on policy_version: what set_policy and
\* set_policy_advanced leave alone, and the denial after a lowered budget.
C15_FrameBesidesVersion ==
    [][/\ (last'.op = "set_policy" /\ last'.err = "ok") =>
            policy' = [policy EXCEPT
                    !.daily_budget_lamports = policy'.daily_budget_lamports,
                    !.cooldown_seconds = policy'.cooldown_seconds,
                    !.agent = policy'.agent,
                    !.policy_version = policy'.policy_version]
       /\ (last'.op = "set_policy_advanced" /\ last'.err = "ok") =>
            /\ policy'.spent_today_lamports = policy.spent_today_lamports
            /\ policy'.day_index = policy.day_index
            /\ policy'.last_spend_ts = policy.last_spend_ts
            /\ policy'.next_sequence = policy.next_sequence
       /\ AdminCommitted =>
            UNCHANGED <<audit, trackers, vault_lamports, recipient_lamports,
                        emitted, written, closes>>
       /\ ( /\ SpendCommitted
            /\ EpochDay(NewEvent.ts) = policy.day_index
            /\ policy.spent_today_lamports > policy.daily_budget_lamports
            /\ NewEvent.amount > 0
            /\ ~policy.paused
            /\ policy.allowlist_enabled =>
                    NewEvent.recipient = policy.allowed_recipient )
            => (~NewEvent.allowed /\
                NewEvent.reason_code = REASON_BUDGET_EXCEEDED)]_vars

\* ----------------------------------------------------------------- C16
CloseOps == {"close_audit_event", "close_recipient_spend"}

\* C16: a successful close_audit_event removes one audit event and a
\* successful close_recipient_spend one tracker, and neither changes the
\* policy (next_sequence included) or any other audit event; and the
\* sequence number a completed spend intent writes is above every sequence
\* number ever written before, those of purged events included.
C16_PurgeKeepsNumbering ==
    [][/\ (last'.op \in CloseOps /\ last'.err = "ok") =>
            /\ policy' = policy
            /\ written' = written
            /\ \A q \in DOMAIN audit' : q \in DOMAIN audit /\ audit'[q] = audit[q]
            /\ IF last'.op = "close_audit_event"
               THEN /\ Cardinality(DOMAIN audit \ DOMAIN audit') = 1
                    /\ trackers' = trackers
               ELSE DOMAIN audit' = DOMAIN audit
       /\ SpendCommitted =>
            /\ NewEvent.sequence = policy.next_sequence
            /\ written' = Append(written, NewEvent.sequence)
            /\ \A i \in DOMAIN written : written[i] < NewEvent.sequence]_vars

\* A spend intent completed after the audit event of sequence 0 was purged:
\* its event took sequence 1.
C16_Witness ==
    /\ last.op \in SpendOps /\ last.err = "ok"
    /\ closes = 1
    /\ written = <<0, 1>>
    /\ DOMAIN audit = {1}
    /\ policy.next_sequence = 2

\* ----------------------------------------------------------------- C17
\* spent_today as the audit events ev account for it: the allowed amounts of
\* the events of day d.
AllowedOnDay(ev, d) ==
    SumOver([q \in DOMAIN ev |->
                IF ev[q].allowed /\ EpochDay(ev[q].ts) = d
                THEN ev[q].amount ELSE 0],
            DOMAIN ev)

\* C17: transactions on one policy take effect one after the other with no
\* lost update: every committed spend intent has its own sequence number,
\* next_sequence is the number of committed spend intents, and spent_today
\* is the sum of the amounts allowed on the policy's current day (read off
\* the audit events while none is purged); a spend intent whose audit_event
\* address was derived from a next_sequence that is no longer current fails
\* and stores nothing.
C17_SerializedNoLostUpdate ==
    [][/\ policy'.initialized =>
            /\ policy'.next_sequence = Len(written')
            /\ policy'.next_sequence = Len(emitted')
            /\ \A i, j \in DOMAIN written' :
                    i # j => written'[i] # written'[j]
            /\ \A q \in DOMAIN audit' : audit'[q].sequence = q
            /\ (DOMAIN audit' = 0..(Len(written') - 1)) =>
                    policy'.spent_today_lamports
                        = AllowedOnDay(audit', policy'.day_index)
       /\ ( /\ last'.op \in SpendOps
            /\ policy.initialized
            /\ ~(last'.err # "ok" /\ AccountsUnchanged) )
            => \A c \in Callers, r \in Recipients, amt \in Amounts,
                  q \in SeqArgs \ {policy.next_sequence} :
                    /\ ~SpendIntent(c, r, amt, q, now')
                    /\ ~SpendIntentV2(c, r, amt, q, now')]_vars

\* After a spend of 41 was committed, an intent prepared against the same
\* next_sequence (0) arrived and failed on its audit_event address.
C17_Witness ==
    /\ last.op \in SpendOps /\ last.err = "ConstraintSeeds"
    /\ policy.initialized
    /\ policy.next_sequence = 1
    /\ DOMAIN audit = {0}
    /\ audit[0].allowed
    /\ policy.spent_today_lamports = 41
    /\ vault_lamports = VaultFunding - 41

\* ----------------------------------------------------------------- C18
\* C18: an authorized spend intent with valid accounts that passes the
\* amount, pause and allowlist rules and whose amount added to spent_today
\* (as it stands after the lazy rollover) is beyond the u64 range completes
\* as a BUDGET_EXCEEDED denial whatever daily_budget is, the largest u64
\* included: it is not allowed, nothing is transferred, and spent_today
\* stays what it was, inside the u64 range.
C18_BudgetOverflowSafe ==
    [][/\ policy'.initialized =>
            policy'.spent_today_lamports \in 0..U64_MAX
       /\ \A c \in Callers, r \in Recipients, amt \in LargeAmounts :
            ( /\ last'.op \in SpendOps
              /\ policy.initialized
              /\ c = policy.authority \/ c = policy.agent
              /\ amt > 0
              /\ ~policy.paused
              /\ policy.allowlist_enabled => r = policy.allowed_recipient
              /\ SpentSeen(now') + amt > U64_MAX
              /\ \/ SpendIntent(c, r, amt, policy.next_sequence, now')
                 \/ SpendIntentV2(c, r, amt, policy.next_sequence, now') )
            => /\ last'.err = "ok"
               /\ ~NewEvent.allowed
               /\ NewEvent.reason_code = REASON_BUDGET_EXCEEDED
               /\ policy'.spent_today_lamports = SpentSeen(now')
               /\ vault_lamports' = vault_lamports]_vars

\* ----------------------------------------------------------------- C19
\* C19: whatever time a spend intent is given, negative or earlier than a
\* time given before or than last_spend_ts, the transaction does not fault,
\* and when it completes the policy's day_index is floor(now / 86400), with
\* spent_today restarted from 0 when that day differs from the stored one
\* and carried on when it does not.
C19_FloorDayAnyTime ==
    [][/\ last'.op \in SpendOps => last'.err # "Panic"
       /\ SpendCommitted =>
            LET e == NewEvent
                day == EpochDay(now')
                added == IF e.allowed THEN e.amount ELSE 0
            IN  /\ e.ts = now'
                /\ policy'.day_index = day
                /\ day # policy.day_index =>
                        policy'.spent_today_lamports = added
                /\ day = policy.day_index =>
                        policy'.spent_today_lamports
                            = policy.spent_today_lamports + added]_vars

\* ----------------------------------------------------------------- C20
\* C20: a completed spend_intent_v2 to recipient r, allowed or denied,
\* leaves r's tracker existing with day_index the current day and with
\* spent_today counted from 0 when the tracker did not exist or its own
\* stored day_index differs from the current day, and from its stored value
\* otherwise, whatever the policy's day_index was; the count grows by the
\* amount exactly when the intent is allowed.  No other step changes a
\* tracker, except that a successful close_recipient_spend removes one.
C20_TrackerLazyAndIndependent ==
    [][\A r \in Recipients :
          IF /\ last' = [op |-> "spend_intent_v2", err |-> "ok"]
             /\ NewEvent.recipient = r
          THEN LET e == NewEvent
                   day == EpochDay(e.ts)
                   added == IF e.allowed THEN e.amount ELSE 0
                   base == IF trackers[r].exists /\ trackers[r].day_index = day
                           THEN trackers[r].spent_today_lamports
                           ELSE 0
               IN  /\ trackers'[r].exists
                   /\ trackers'[r].policy = PolicyKey
                   /\ trackers'[r].recipient = r
                   /\ trackers'[r].day_index = day
                   /\ trackers'[r].spent_today_lamports = base + added
          ELSE \/ trackers'[r] = trackers[r]
               \/ /\ last' = [op |-> "close_recipient_spend", err |-> "ok"]
                  /\ trackers'[r] = NoAccount
                  /\ \A o \in Recipients \ {r} : trackers'[o] = trackers[o]]_vars

\* Three spend intents with no tracker closed and none ever created for R2:
\* 41 to R1 on day 0, 41 to R2 on day 1 through spend_intent, which rolled the
\* policy's window, then a spend_intent_v2 of 60 to R1 on day 1, denied
\* BUDGET_EXCEEDED: the policy's window was current and kept its 41, R1's
\* tracker is on day 1 with nothing spent.
C20_Witness ==
    /\ last = [op |-> "spend_intent_v2", err |-> "ok"]
    /\ closes = 0
    /\ DOMAIN audit = {0, 1, 2}
    /\ audit[0].recipient = "R1" /\ audit[0].allowed /\ EpochDay(audit[0].ts) = 0
    /\ audit[1].recipient = "R2" /\ audit[1].allowed /\ EpochDay(audit[1].ts) = 1
    /\ audit[2].recipient = "R1" /\ ~audit[2].allowed
    /\ audit[2].reason_code = REASON_BUDGET_EXCEEDED
    /\ ~trackers["R2"].exists
    /\ trackers["R1"].exists
    /\ trackers["R1"].day_index = 1
    /\ trackers["R1"].spent_today_lamports = 0
    /\ policy.day_index = 1
    /\ policy.spent_today_lamports = 41

\* ----------------------------------------------------------------- C21
\* The allowed amounts of the events of ev that went to recipient r on day d
\* and were decided under policy version v.
AllowedToOnDay(ev, r, d, v) ==
    SumOver([q \in DOMAIN ev |->
                IF /\ ev[q].allowed
                   /\ ev[q].recipient = r
                   /\ EpochDay(ev[q].ts) = d
                   /\ ev[q].policy_version = v
                THEN ev[q].amount ELSE 0],
            DOMAIN ev)

\* C21: while per_recipient_daily_cap_lamports is a constant cap > 0 (the
\* spends decided under the policy's current version: every admin mutation
\* in this range bumps it) and the clock does not run backwards, the amounts
\* of the allowed spends to one recipient on one epoch day sum to at most
\* cap, whichever instruction submitted them and whether or not the
\* recipient's tracker was closed in between.
C21_RecipientCapEndToEnd ==
    (policy.initialized /\ policy.per_recipient_daily_cap_lamports > 0) =>
        \A r \in Recipients, d \in 0..MaxDay :
            AllowedToOnDay(audit, r, d, policy.policy_version)
                <= policy.per_recipient_daily_cap_lamports

\* What the tracker alone guarantees: a completed spend_intent_v2 under a
\* cap > 0 leaves the recipient's tracker at no more than the cap.
C21_TrackerWithinCap ==
    [][(/\ last' = [op |-> "spend_intent_v2", err |-> "ok"]
        /\ policy.per_recipient_daily_cap_lamports > 0) =>
            LET r == NewEvent.recipient
                base == IF /\ trackers[r].exists
                           /\ trackers[r].day_index = EpochDay(now')
                        THEN trackers[r].spent_today_lamports
                        ELSE 0
            IN  /\ NewEvent.allowed =>
                    trackers'[r].spent_today_lamports
                        <= policy.per_recipient_daily_cap_lamports
                /\ base + NewEvent.amount > policy.per_recipient_daily_cap_lamports
                        => ~NewEvent.allowed]_vars

====
